---------------------------- MODULE Spec2Model ----------------------------
(***************************************************************************)
(* The Pomodoro timer engine of tomatobar_backend.py (class PomodoroTimer). *)
(*                                                                         *)
(* The program has two threads and a signal handler, and no lock:          *)
(*   "main"      PomodoroTimer.run, the one-second tick loop; the signal   *)
(*               handler _handle_exit runs on this thread, between two of  *)
(*               its steps;                                                *)
(*   "listener"  PomodoroTimer._command_listener, which reads verbs from   *)
(*               the command FIFO and runs _process_command.               *)
(* Each thread is a stack of frames (pc): the head is the statement it     *)
(* executes next, the rest is what it returns to.  One action models one   *)
(* statement that reads or writes the object's fields; a read-modify-write *)
(* statement (x -= 1, x += 1) is two steps, as in the interpreter.         *)
(*                                                                         *)
(* Spec        every interleaving of the tick loop with the listener,      *)
(*             which works through the lines waiting in the FIFO.          *)
(* SpecSerial  the same steps, scheduled one whole tick, one whole command *)
(*             or one whole signal handler at a time; every verb.          *)
(* SpecCycle   scheduled as SpecSerial, started with any pomodoro count    *)
(*             and threshold; the verbs start, pause, resume and skip.     *)
(* SpecFaulty  whole ticks and whole commands, where a write of the        *)
(*             session log or of the status file may fail.                 *)
(* SpecLive    every interleaving, the tick loop scheduled fairly, the     *)
(*             listener not.                                               *)
(* SpecPreempt whole commands, run between any two statements of a tick.   *)
(* SpecSignal  scheduled as SpecSerial, with a signal delivered at any     *)
(*             statement of a tick, of a command or of the handler.        *)
(***************************************************************************)
EXTENDS Integers, Sequences, FiniteSets, TLC

(***************************************************************************)
(* Bounds of the model.                                                    *)
(***************************************************************************)
\* config["work_duration_minutes"], ["short_break_duration_minutes"],
\* ["long_break_duration_minutes"], ["pomodoros_before_long_break"]: the
\* configuration is an input of the program; these are the values explored.
WorkMinutes == 2
ShortMinutes == 1
LongMinutes == 2
Threshold == 2
\* Ticks in a configured minute.  The source multiplies by 60; the model
\* scales the minute down so that a whole countdown is enumerable.
SecondsPerMinute == 1
\* Session attempts (values of session_start_timestamp) after which no new
\* tick or command is taken: in SpecSerial and SpecCycle, and in Spec.
MaxClock == 3
MaxRaceClock == 2
\* Termination signals delivered.
MaxSignals == 2
\* Spec: lines waiting in the command FIFO when the engine starts.
MaxCommands == 2
\* SpecFaulty: writes that fail in one tick or command, and session
\* attempts after which no new command is taken (ticks go on for one more).
MaxFaults == 1
MaxFaultyClock == 2
\* SpecCycle: largest initial pomodoro count and largest threshold.
MaxCount == 3
MaxThreshold == 3

(***************************************************************************)
(* class PomodoroState                                                     *)
(***************************************************************************)
IDLE == "IDLE"
WORK == "WORK"
SHORT_BREAK == "SHORT_BREAK"
LONG_BREAK == "LONG_BREAK"
PAUSED == "PAUSED"
PomodoroState == {IDLE, WORK, SHORT_BREAK, LONG_BREAK, PAUSED}

\* The list [WORK, SHORT_BREAK, LONG_BREAK] of _process_command, and the
\* complement of [IDLE, PAUSED] in run and _handle_exit.
ActiveStates == {WORK, SHORT_BREAK, LONG_BREAK}

\* self.session_start_timestamp = None.  Session attempts are numbered from
\* 1, and the number stands for the int(time.time()) stored when the attempt
\* starts: no transition reads the wall clock's value.
None == 0
\* self.paused_state before the first _pause: __init__ does not assign it.
Undefined == "undefined"

\* state_map of _write_status
state_map(s) ==
    CASE s = IDLE -> "idle"
      [] s = WORK -> "work"
      [] s = SHORT_BREAK -> "short_break"
      [] s = LONG_BREAK -> "long_break"
      [] s = PAUSED -> "paused"

\* type_map of _log_session (defined on the three timed states only)
type_map(s) ==
    CASE s = WORK -> "work"
      [] s = SHORT_BREAK -> "short_break"
      [] s = LONG_BREAK -> "long_break"

Threads == {"main", "listener"}

\* The verbs of _process_command; "bogus" stands for any other non-blank line.
Verbs == {"start", "pause", "resume", "skip", "reset", "restart_cycle",
          "get_status", "bogus"}

\* The verbs sent in Spec: those that end a session or start one.
RaceVerbs == {"start", "pause", "skip", "reset", "restart_cycle"}

VARIABLES
    self,       \* the PomodoroTimer object's fields
    config,     \* self.config, read-only after construction
    log,        \* the rows INSERTed into the sessions table, in order
    status,     \* the content of the status file
    fifo,       \* the lines written to the command FIFO and not read yet
    pc,         \* per thread, the stack of frames still to execute
    alive,      \* the process has not exited
    signals,    \* termination signals delivered so far
    ev,         \* history: per activity, the state when it began
    sessions,   \* history: sessions[i] is the phase of session attempt i
    expired,    \* history: attempts whose countdown the tick loop found at 0
    atPause     \* history: phase and remaining time when pause was received

vars == <<self, config, log, status, fifo, pc, alive, signals, ev, sessions,
          expired, atPause>>

(***************************************************************************)
(* Frames and control.                                                     *)
(***************************************************************************)
\* A frame: the label of a statement and the value of its local, if any.
F(l) == [l |-> l, a |-> 0]
FA(l, a) == [l |-> l, a |-> a]

At(t, l) == alive /\ pc[t] # <<>> /\ Head(pc[t]).l = l
Arg(t) == Head(pc[t]).a

\* Replace the executing frame by the frames fs: fs = <<>> returns.
Goto(t, fs) == pc' = [pc EXCEPT ![t] = fs \o Tail(pc[t])]

\* The signal handler is on the main thread's stack.
InHandler ==
    \E i \in 1..Len(pc["main"]) :
        pc["main"][i].l \in {"he_chk", "he_run", "he_exit"}

\* The activity a step of thread t belongs to.
Ctx(t) == IF t = "listener" THEN "listener"
          ELSE IF InHandler THEN "sig" ELSE "main"

NoEvent == [verb |-> "none", phase |-> IDLE, tr |-> 0, cnt |-> 0,
            sts |-> None, ps |-> Undefined, ptr |-> 0, n |-> 0, w |-> 0,
            f |-> 0, woke |-> FALSE]

\* The state an activity starts from; n counts the rows it appends, w the
\* status files it writes, f the writes that failed, and woke tells that the tick loop began another
\* iteration while the activity ran.
Begin(verb) == [verb |-> verb, phase |-> self.current_state,
                tr |-> self.time_remaining_seconds,
                cnt |-> self.pomodoros_completed_in_cycle,
                sts |-> self.session_start_timestamp,
                ps |-> self.paused_state,
                ptr |-> self.paused_time_remaining, n |-> 0, w |-> 0,
                f |-> 0, woke |-> FALSE]

\* An exception leaves the frames of t: in the listener it is caught at
\* line 190 (sleep, reopen the FIFO, read on); on the main thread, also when
\* raised inside the signal handler, it is caught at line 481 of run.
Raise(t) ==
    /\ pc' = [pc EXCEPT ![t] = IF t = "listener" THEN <<F("ret")>>
                               ELSE <<F("end")>>]
    /\ ev' = IF t = "listener" THEN [ev EXCEPT !["listener"] = NoEvent]
             ELSE [ev EXCEPT !["main"] = NoEvent, !["sig"] = NoEvent]

(***************************************************************************)
(* Construction: __init__ (lines 40-60).                                   *)
(***************************************************************************)
InitSelf ==
    [current_state |-> IDLE,
     time_remaining_seconds |-> 0,
     pomodoros_completed_in_cycle |-> 0,
     session_start_timestamp |-> None,
     paused_state |-> Undefined,
     paused_time_remaining |-> 0,
     running |-> TRUE]

\* The status file before the first _write_status: read_status of the
\* front end shows an absent or empty file as idle.
NoStatus == [state |-> "", time_remaining |-> 0, pomodoros_completed |-> 0,
             total_pomodoros_for_long_break |-> 0,
             message |-> [text |-> "", mm |-> 0, ss |-> 0]]

InitEngine ==
    /\ status = NoStatus
    /\ pc = [t \in Threads |-> IF t = "main" THEN <<F("sleep")>>
                               ELSE <<F("readline")>>]
    /\ alive = TRUE
    /\ signals = 0
    /\ ev = [c \in {"main", "listener", "sig"} |-> NoEvent]
    /\ sessions = <<>>
    /\ expired = {}
    /\ atPause = [phase |-> IDLE, tr |-> 0]

InitRest ==
    /\ fifo = <<>>
    /\ log = <<>>
    /\ InitEngine

InitSerial ==
    /\ self = InitSelf
    /\ config = [work_duration_minutes |-> WorkMinutes,
                 short_break_duration_minutes |-> ShortMinutes,
                 long_break_duration_minutes |-> LongMinutes,
                 pomodoros_before_long_break |-> Threshold]
    /\ InitRest

\* The engine constructed, with the lines clients send already in the FIFO.
Init ==
    /\ self = InitSelf
    /\ config = [work_duration_minutes |-> WorkMinutes,
                 short_break_duration_minutes |-> ShortMinutes,
                 long_break_duration_minutes |-> LongMinutes,
                 pomodoros_before_long_break |-> Threshold]
    /\ fifo \in UNION {[1..n -> RaceVerbs] : n \in 0..MaxCommands}
    /\ log = <<>>
    /\ InitEngine

\* The engine idle after c completed pomodoros, configured with threshold p.
InitCycle ==
    /\ \E c \in 0..MaxCount :
          self = [InitSelf EXCEPT !.pomodoros_completed_in_cycle = c]
    /\ \E p \in 1..MaxThreshold :
          config = [work_duration_minutes |-> WorkMinutes,
                    short_break_duration_minutes |-> ShortMinutes,
                    long_break_duration_minutes |-> LongMinutes,
                    pomodoros_before_long_break |-> p]
    /\ InitRest

(***************************************************************************)
(* _log_session(completed) (lines 348-392).  The row's end_time and        *)
(* duration_actual_seconds are wall-clock readings and are not kept.       *)
(***************************************************************************)
LogSession(completed) == <<FA("log_a", completed)>>

\* line 350: if self.session_start_timestamp is None: return
LogCheck(t) ==
    /\ At(t, "log_a")
    /\ IF self.session_start_timestamp = None
       THEN Goto(t, <<>>)
       ELSE Goto(t, <<FA("log_b", Arg(t))>>)
    /\ UNCHANGED <<fifo, self, config, log, status, alive, signals,
                   ev, sessions, expired, atPause>>

\* line 364: the state whose type the row gets
LoggedState == IF self.current_state = PAUSED THEN self.paused_state
               ELSE self.current_state

\* lines 378-385: the row inserted
SessionRow(completed) ==
    [start_time |-> self.session_start_timestamp,
     type |-> type_map(LoggedState),
     completed |-> completed,
     pomodoro_count_at_completion |-> self.pomodoros_completed_in_cycle]

\* lines 353-392.  Line 354 subtracts the timestamp: a None stored since the
\* check of line 350 raises TypeError.
LogInsert(t) ==
    /\ At(t, "log_b")
    /\ IF self.session_start_timestamp = None
       THEN Raise(t) /\ UNCHANGED log
       ELSE /\ Goto(t, <<>>)
            /\ IF LoggedState \in ActiveStates
               THEN /\ log' = Append(log, SessionRow(Arg(t)))
                    /\ ev' = [ev EXCEPT ![Ctx(t)].n = @ + 1]
               ELSE UNCHANGED <<log, ev>>
    /\ UNCHANGED <<fifo, self, config, status, alive, signals,
                   sessions, expired, atPause>>

\* Mutant of LogInsertFails: the error of the database leaves _log_session.
LogInsertRaises(t) ==
    /\ At(t, "log_b")
    /\ ev[Ctx(t)].f < MaxFaults
    /\ self.session_start_timestamp # None
    /\ LoggedState \in ActiveStates
    /\ pc' = [pc EXCEPT ![t] = IF t = "listener" THEN <<F("ret")>>
                               ELSE <<F("end")>>]
    /\ ev' = [ev EXCEPT ![Ctx(t)].f = @ + 1]
    /\ UNCHANGED <<fifo, self, config, log, status, alive, signals,
                   sessions, expired, atPause>>

\* lines 371-392: connect, execute or commit raises; the error is logged at
\* line 389 and the connection closed, and _log_session returns
LogInsertFails(t) ==
    /\ At(t, "log_b")
    /\ ev[Ctx(t)].f < MaxFaults
    /\ self.session_start_timestamp # None
    /\ LoggedState \in ActiveStates
    /\ Goto(t, <<>>)
    /\ ev' = [ev EXCEPT ![Ctx(t)].f = @ + 1]
    /\ UNCHANGED <<fifo, self, config, log, status, alive, signals,
                   sessions, expired, atPause>>

(***************************************************************************)
(* _write_status (lines 221-267): build the snapshot, then write the file. *)
(***************************************************************************)
\* Mutant of WriteStatus: the file is written twice.
WriteStatusTwice == <<F("ws_snap"), F("ws_snap")>>

WriteStatus == <<F("ws_snap")>>

\* lines 232-250: the message, "<text>: mm:ss" with divmod(remaining, 60),
\* or "Ready", which shows no time
Timed(text) == [text |-> text,
                mm |-> self.time_remaining_seconds \div 60,
                ss |-> self.time_remaining_seconds % 60]

Message ==
    CASE self.current_state = WORK -> Timed("Work")
      [] self.current_state = SHORT_BREAK -> Timed("Break")
      [] self.current_state = LONG_BREAK -> Timed("Long Break")
      [] self.current_state = PAUSED ->
            (CASE self.paused_state = WORK -> Timed("Paused Work")
               [] self.paused_state = SHORT_BREAK -> Timed("Paused Break")
               [] self.paused_state = LONG_BREAK -> Timed("Paused Long Break")
               [] OTHER -> [text |-> "", mm |-> 0, ss |-> 0])
      [] OTHER -> [text |-> "Ready", mm |-> 0, ss |-> 0]

\* lines 252-258
Snapshot ==
    [state |-> state_map(self.current_state),
     time_remaining |-> self.time_remaining_seconds,
     pomodoros_completed |-> self.pomodoros_completed_in_cycle,
     total_pomodoros_for_long_break |-> config.pomodoros_before_long_break,
     message |-> Message]

\* lines 224-261
StatusSnapshot(t) ==
    /\ At(t, "ws_snap")
    /\ Goto(t, <<FA("ws_write", Snapshot)>>)
    /\ UNCHANGED <<fifo, self, config, log, status, alive, signals,
                   ev, sessions, expired, atPause>>

\* lines 262-263
StatusWrite(t) ==
    /\ At(t, "ws_write")
    /\ status' = Arg(t)
    /\ ev' = [ev EXCEPT ![Ctx(t)].w = @ + 1]
    /\ Goto(t, <<>>)
    /\ UNCHANGED <<fifo, self, config, log, alive, signals,
                   sessions, expired, atPause>>

\* lines 262-266: open or write raises; the error is logged at line 266 and
\* _write_status returns
StatusWriteFails(t) ==
    /\ At(t, "ws_write")
    /\ ev[Ctx(t)].f < MaxFaults
    /\ Goto(t, <<>>)
    /\ ev' = [ev EXCEPT ![Ctx(t)].f = @ + 1]
    /\ UNCHANGED <<fifo, self, config, log, status, alive, signals,
                   sessions, expired, atPause>>

(***************************************************************************)
(* _start_work_session (269-275), _start_break (277-289), and the          *)
(* assignment session_start_timestamp = int(time.time()) they share with   *)
(* _resume (line 309).                                                     *)
(***************************************************************************)
StartWorkSession == <<F("sw_state"), F("sw_time"), F("set_sts")>> \o WriteStatus

StartBreak(is_long_break) ==
    <<FA("sb_state", is_long_break), FA("sb_time", is_long_break),
      F("set_sts")>> \o WriteStatus

SetField(t, l, new) ==
    /\ At(t, l)
    /\ self' = new
    /\ Goto(t, <<>>)
    /\ UNCHANGED <<fifo, config, log, status, alive, signals, ev,
                   sessions, expired, atPause>>

\* line 272
WorkSeconds == config.work_duration_minutes * SecondsPerMinute
\* line 281
LongBreakSeconds == config.long_break_duration_minutes * SecondsPerMinute
\* line 285
ShortBreakSeconds == config.short_break_duration_minutes * SecondsPerMinute

\* line 271
StartWorkState(t) ==
    SetField(t, "sw_state", [self EXCEPT !.current_state = WORK])

\* line 272
StartWorkTime(t) ==
    SetField(t, "sw_time", [self EXCEPT !.time_remaining_seconds = WorkSeconds])

\* lines 280, 284
StartBreakState(t) ==
    SetField(t, "sb_state",
             [self EXCEPT !.current_state =
                  IF Arg(t) THEN LONG_BREAK ELSE SHORT_BREAK])

\* lines 281, 285
StartBreakTime(t) ==
    SetField(t, "sb_time",
             [self EXCEPT !.time_remaining_seconds =
                  IF Arg(t) THEN LongBreakSeconds ELSE ShortBreakSeconds])

\* lines 273, 288, 309: a new session attempt
SetStartTimestamp(t) ==
    /\ At(t, "set_sts")
    /\ sessions' = Append(sessions, self.current_state)
    /\ self' = [self EXCEPT !.session_start_timestamp = Len(sessions) + 1]
    /\ Goto(t, <<>>)
    /\ UNCHANGED <<fifo, config, log, status, alive, signals, ev,
                   expired, atPause>>

(***************************************************************************)
(* _complete_work_session (394-412) and _complete_break_session (414-426). *)
(* _send_notification and _play_sound touch no field and catch their own   *)
(* errors.                                                                 *)
(***************************************************************************)
CompleteWorkSession(was_skipped) ==
    LogSession(~was_skipped) \o <<F("inc_r"), F("sel")>>

CompleteBreakSession(was_skipped) ==
    LogSession(~was_skipped) \o StartWorkSession

\* line 399, the read of pomodoros_completed_in_cycle += 1
IncrementRead(t) ==
    /\ At(t, "inc_r")
    /\ Goto(t, <<FA("inc_w", self.pomodoros_completed_in_cycle)>>)
    /\ UNCHANGED <<fifo, self, config, log, status, alive, signals,
                   ev, sessions, expired, atPause>>

\* Mutants of Incremented: the count stepped by two, and not stepped.
IncrementedTwice(read) == read + 2
NotIncremented(read) == read

\* line 399: the value stored by pomodoros_completed_in_cycle += 1
Incremented(read) == read + 1

\* line 399, the write
IncrementWrite(t) ==
    SetField(t, "inc_w",
             [self EXCEPT !.pomodoros_completed_in_cycle = Incremented(Arg(t))])

\* Mutant of IsLongBreak: a long break once the threshold is reached.
IsLongBreakFromThreshold ==
    self.pomodoros_completed_in_cycle >= config.pomodoros_before_long_break

\* line 409
IsLongBreak ==
    self.pomodoros_completed_in_cycle % config.pomodoros_before_long_break = 0

\* lines 409-412
SelectBreak(t) ==
    /\ At(t, "sel")
    /\ Goto(t, StartBreak(IsLongBreak))
    /\ UNCHANGED <<fifo, self, config, log, status, alive, signals,
                   ev, sessions, expired, atPause>>

(***************************************************************************)
(* run (458-483), the tick loop on the main thread.                        *)
(***************************************************************************)
\* A step that only reads a field and branches.
Branch(t, l, fs) ==
    /\ At(t, l)
    /\ Goto(t, fs)
    /\ UNCHANGED <<fifo, self, config, log, status, alive, signals,
                   ev, sessions, expired, atPause>>

\* line 480 returns: one second has passed and the next iteration begins
Wake(attempts) ==
    /\ At("main", "sleep")
    /\ Len(sessions) < attempts
    /\ Goto("main", <<F("loop")>>)
    /\ ev' = [ev EXCEPT !["main"] = Begin("tick"),
                        !["listener"].woke = ev["listener"].verb # "none"]
    /\ UNCHANGED <<fifo, self, config, log, status, alive, signals,
                   sessions, expired, atPause>>

\* line 462: while self.running; run returns when it is false, main returns
\* and the process ends
LoopTest ==
    /\ At("main", "loop")
    /\ IF self.running
       THEN Goto("main", <<F("chk_state")>>) /\ UNCHANGED alive
       ELSE pc' = [t \in Threads |-> <<>>] /\ alive' = FALSE
    /\ UNCHANGED <<fifo, self, config, log, status, signals, ev,
                   sessions, expired, atPause>>

\* line 465
CheckState ==
    Branch("main", "chk_state",
           IF self.current_state \notin {IDLE, PAUSED}
           THEN <<F("chk_time")>> ELSE <<F("end")>>)

\* line 467; the countdown of the current attempt is found at zero
CheckTime ==
    /\ At("main", "chk_time")
    /\ IF self.time_remaining_seconds > 0
       THEN Goto("main", <<F("dec_r")>>) /\ UNCHANGED expired
       ELSE /\ Goto("main", <<F("else_w")>>)
            /\ expired' = expired \cup {self.session_start_timestamp}
    /\ UNCHANGED <<fifo, self, config, log, status, alive, signals,
                   ev, sessions, atPause>>

\* line 468, the read of time_remaining_seconds -= 1
DecrementRead ==
    Branch("main", "dec_r", <<FA("dec_w", self.time_remaining_seconds)>>)

\* A line 468 that writes back the value it read.
DecrementLost ==
    /\ At("main", "dec_w")
    /\ self' = [self EXCEPT !.time_remaining_seconds = Arg("main")]
    /\ Goto("main", <<F("mod5")>>)
    /\ UNCHANGED <<fifo, config, log, status, alive, signals, ev,
                   sessions, expired, atPause>>

\* line 468, the write
DecrementWrite ==
    /\ At("main", "dec_w")
    /\ self' = [self EXCEPT !.time_remaining_seconds = Arg("main") - 1]
    /\ Goto("main", <<F("mod5")>>)
    /\ UNCHANGED <<fifo, config, log, status, alive, signals, ev,
                   sessions, expired, atPause>>

\* lines 471-472
StatusEveryFive ==
    Branch("main", "mod5",
           IF self.time_remaining_seconds % 5 = 0
           THEN WriteStatus \o <<F("end")>> ELSE <<F("end")>>)

\* lines 475-476
TimeUpWork ==
    Branch("main", "else_w",
           IF self.current_state = WORK
           THEN CompleteWorkSession(FALSE) \o <<F("end")>>
           ELSE <<F("else_b")>>)

\* lines 477-478
TimeUpBreak ==
    Branch("main", "else_b",
           IF self.current_state \in {SHORT_BREAK, LONG_BREAK}
           THEN CompleteBreakSession(FALSE) \o <<F("end")>>
           ELSE <<F("end")>>)

\* lines 480, 483: time.sleep(1)
Sleep ==
    /\ At("main", "end")
    /\ Goto("main", <<F("sleep")>>)
    /\ ev' = [ev EXCEPT !["main"] = NoEvent]
    /\ UNCHANGED <<fifo, self, config, log, status, alive, signals,
                   sessions, expired, atPause>>

(***************************************************************************)
(* _pause (291-302) and _resume (304-311).                                 *)
(***************************************************************************)
Pause == <<F("p_chk")>>
Resume == <<F("r_chk")>>

\* line 293
PauseCheck(t) ==
    Branch(t, "p_chk",
           IF self.current_state # PAUSED
           THEN <<F("p_ps"), F("p_ptr"), F("p_state")>> \o LogSession(FALSE)
                \o WriteStatus
           ELSE <<>>)

\* line 294
PauseSaveState(t) ==
    SetField(t, "p_ps", [self EXCEPT !.paused_state = self.current_state])

\* line 295: the remaining time saved
SavedRemaining == self.time_remaining_seconds

PauseSaveTime(t) ==
    SetField(t, "p_ptr", [self EXCEPT !.paused_time_remaining = SavedRemaining])

\* line 296
PauseState(t) ==
    SetField(t, "p_state", [self EXCEPT !.current_state = PAUSED])

\* line 306
ResumeCheck(t) ==
    Branch(t, "r_chk",
           IF self.current_state = PAUSED
           THEN <<F("r_state"), F("r_time"), F("set_sts")>> \o WriteStatus
           ELSE <<>>)

\* line 307
ResumeState(t) ==
    SetField(t, "r_state", [self EXCEPT !.current_state = self.paused_state])

\* Mutant of RestoredRemaining: the countdown starts over on resume.
RestartedRemaining == config.work_duration_minutes * SecondsPerMinute

\* line 308: the remaining time restored
RestoredRemaining == self.paused_time_remaining

ResumeTime(t) ==
    SetField(t, "r_time",
             [self EXCEPT !.time_remaining_seconds = RestoredRemaining])

(***************************************************************************)
(* _skip_current_phase (313-324), _reset (326-336), _restart_cycle         *)
(* (338-346).                                                              *)
(***************************************************************************)
\* lines 316-322
SkipCurrentPhase == LogSession(FALSE) \o <<F("sk_br")>>

\* line 319
SkipBranch(t) ==
    Branch(t, "sk_br",
           IF self.current_state = WORK
           THEN CompleteWorkSession(TRUE) ELSE StartWorkSession)

\* lines 332-335
ResetTail == <<F("rs_state"), F("rs_time"), F("rs_sts")>> \o WriteStatus

\* lines 329-330
ResetCheck(t) ==
    Branch(t, "reset_chk",
           IF self.current_state # IDLE
           THEN LogSession(FALSE) \o ResetTail ELSE ResetTail)

\* line 332
ResetState(t) ==
    SetField(t, "rs_state", [self EXCEPT !.current_state = IDLE])

\* Mutant of ResetTime: reset clears the count as well.
ResetTimeAndCount(t) ==
    SetField(t, "rs_time", [self EXCEPT !.time_remaining_seconds = 0,
                                        !.pomodoros_completed_in_cycle = 0])

\* line 333
ResetTime(t) ==
    SetField(t, "rs_time", [self EXCEPT !.time_remaining_seconds = 0])

\* line 334
ResetTimestamp(t) ==
    SetField(t, "rs_sts", [self EXCEPT !.session_start_timestamp = None])

\* lines 344-345
RestartTail == <<F("rc_zero")>> \o StartWorkSession

\* lines 341-342
RestartCheck(t) ==
    Branch(t, "rc_chk",
           IF self.current_state # IDLE
           THEN LogSession(FALSE) \o RestartTail ELSE RestartTail)

\* line 344
RestartZero(t) ==
    SetField(t, "rc_zero", [self EXCEPT !.pomodoros_completed_in_cycle = 0])

(***************************************************************************)
(* _command_listener (169-192) and _process_command (194-219).             *)
(***************************************************************************)
\* lines 196-219: the first statement run for a verb
Dispatch(command) ==
    CASE command = "start" -> <<F("start_idle")>>
      [] command = "pause" -> <<F("pause_cmd")>>
      [] command = "resume" -> <<F("resume_cmd")>>
      [] command = "skip" -> <<F("skip_cmd")>>
      [] command = "reset" -> <<F("reset_chk")>>
      [] command = "restart_cycle" -> <<F("rc_chk")>>
      [] command = "get_status" -> WriteStatus
      [] OTHER -> <<>>

\* send_command of tomatobar_module.py (lines 130-144): a client writes a
\* line to the FIFO
Send(verbs) ==
    /\ alive
    /\ fifo = <<>>
    /\ Len(sessions) < MaxClock
    /\ \E command \in verbs : fifo' = <<command>>
    /\ UNCHANGED <<self, config, log, status, pc, alive, signals, ev,
                   sessions, expired, atPause>>

SendCommand == Send(Verbs)

\* The clients of SpecCycle do not reset the timer or restart the cycle.
SendNoReset == Send({"start", "pause", "resume", "skip"})

\* lines 180-187: a non-blank line is read and handed to _process_command
Command ==
    /\ At("listener", "readline")
    /\ fifo # <<>>
    /\ fifo' = Tail(fifo)
    /\ Goto("listener", Dispatch(Head(fifo)) \o <<F("ret")>>)
    /\ ev' = [ev EXCEPT !["listener"] = Begin(Head(fifo))]
    /\ atPause' = IF Head(fifo) = "pause"
                     /\ self.current_state \in ActiveStates
                  THEN [phase |-> self.current_state,
                        tr |-> self.time_remaining_seconds]
                  ELSE atPause
    /\ UNCHANGED <<self, config, log, status, alive, signals, sessions,
                   expired>>

\* A line 198 that starts a work session in every phase but Paused.
StartUnlessPaused ==
    Branch("listener", "start_idle",
           IF self.current_state # PAUSED
           THEN StartWorkSession ELSE <<F("start_paused")>>)

\* line 198
StartIfIdle ==
    Branch("listener", "start_idle",
           IF self.current_state = IDLE
           THEN StartWorkSession ELSE <<F("start_paused")>>)

\* line 201
StartIfPaused ==
    Branch("listener", "start_paused",
           IF self.current_state = PAUSED THEN Resume ELSE <<>>)

\* line 204
PauseCommand ==
    Branch("listener", "pause_cmd",
           IF self.current_state \in ActiveStates THEN Pause ELSE <<>>)

\* line 207
ResumeCommand ==
    Branch("listener", "resume_cmd",
           IF self.current_state = PAUSED THEN Resume ELSE <<>>)

\* line 210
SkipCommand ==
    Branch("listener", "skip_cmd",
           IF self.current_state \in ActiveStates
           THEN SkipCurrentPhase ELSE <<>>)

\* _process_command returned: lines 179, 175 test self.running and the
\* listener reads the next line
Return ==
    /\ At("listener", "ret")
    /\ Goto("listener", IF self.running THEN <<F("readline")>> ELSE <<>>)
    /\ ev' = [ev EXCEPT !["listener"] = NoEvent]
    /\ UNCHANGED <<fifo, self, config, log, status, alive, signals,
                   sessions, expired, atPause>>

(***************************************************************************)
(* _handle_exit (446-456), run on the main thread when SIGINT or SIGTERM   *)
(* is delivered, on top of whatever the thread was doing.                  *)
(***************************************************************************)
Signal ==
    /\ alive
    /\ pc["main"] # <<>>
    /\ signals < MaxSignals
    /\ signals' = signals + 1
    /\ pc' = [pc EXCEPT !["main"] = <<F("he_chk")>> \o @]
    /\ ev' = IF InHandler THEN ev
             ELSE [ev EXCEPT !["sig"] = Begin("signal")]
    /\ UNCHANGED <<fifo, self, config, log, status, alive, sessions,
                   expired, atPause>>

\* Mutant of HandleExitCheck: the session is logged in every state.
HandleExitLogAlways ==
    Branch("main", "he_chk", LogSession(FALSE) \o <<F("he_run")>>)

\* lines 451-452
HandleExitCheck ==
    Branch("main", "he_chk",
           IF self.current_state \notin {IDLE, PAUSED}
           THEN LogSession(FALSE) \o <<F("he_run")>> ELSE <<F("he_run")>>)

\* line 454
HandleExitStop ==
    /\ At("main", "he_run")
    /\ self' = [self EXCEPT !.running = FALSE]
    /\ Goto("main", <<F("he_exit")>>)
    /\ UNCHANGED <<fifo, config, log, status, alive, signals, ev,
                   sessions, expired, atPause>>

\* lines 455-456: sys.exit(0) ends the process, the daemon thread with it
HandleExitExit ==
    /\ At("main", "he_exit")
    /\ alive' = FALSE
    /\ pc' = [t \in Threads |-> <<>>]
    /\ UNCHANGED <<fifo, self, config, log, status, signals, ev,
                   sessions, expired, atPause>>

(***************************************************************************)
(* The next-state relations.                                               *)
(***************************************************************************)
\* Statements of the methods both threads call.
Shared(t) ==
    \/ LogCheck(t) \/ LogInsert(t)
    \/ StatusSnapshot(t) \/ StatusWrite(t)
    \/ StartWorkState(t) \/ StartWorkTime(t)
    \/ StartBreakState(t) \/ StartBreakTime(t)
    \/ SetStartTimestamp(t)
    \/ IncrementRead(t) \/ IncrementWrite(t) \/ SelectBreak(t)

\* The tick loop.
TickStep(attempts) ==
    \/ Wake(attempts) \/ LoopTest \/ CheckState \/ CheckTime
    \/ DecrementRead \/ DecrementWrite \/ StatusEveryFive
    \/ TimeUpWork \/ TimeUpBreak \/ Sleep
    \/ Shared("main")

\* The signal handler, after its delivery, to the exit of the process.
HandlerStep == HandleExitCheck \/ HandleExitStop \/ HandleExitExit

\* The listener: reading a line, start, pause and skip.
ListenerPauseStep ==
    \/ Command \/ Return
    \/ StartIfIdle \/ StartIfPaused \/ PauseCommand \/ SkipCommand
    \/ PauseCheck("listener") \/ PauseSaveState("listener")
    \/ PauseSaveTime("listener") \/ PauseState("listener")
    \/ SkipBranch("listener")
    \/ Shared("listener")

\* The statements of _resume and the verb resume.
ListenerResumeStep ==
    \/ ResumeCommand
    \/ ResumeCheck("listener") \/ ResumeState("listener")
    \/ ResumeTime("listener")

\* The statements of _reset and _restart_cycle.
ResetStep ==
    \/ ResetCheck("listener") \/ ResetState("listener")
    \/ ResetTime("listener") \/ ResetTimestamp("listener")
    \/ RestartCheck("listener") \/ RestartZero("listener")

ListenerRaceStep == ListenerPauseStep \/ ResetStep

ListenerStep == ListenerPauseStep \/ ListenerResumeStep \/ ResetStep

\* A thread between two activities: the tick loop asleep, the listener
\* blocked in readline.
Idle(t) ==
    /\ Len(pc[t]) = 1
    /\ Head(pc[t]).l = IF t = "main" THEN "sleep" ELSE "readline"

\* Every interleaving of the tick loop with the listener.
Next == TickStep(MaxRaceClock) \/ ListenerRaceStep

\* One whole tick, one whole command or the whole handler at a time; a
\* line is sent, and a signal delivered, between two of them.
Quiet == Idle("main") /\ Idle("listener")

NextSerial ==
    \/ Idle("listener") /\ TickStep(MaxClock)
    \/ Idle("main") /\ ListenerStep
    \/ Idle("listener") /\ HandlerStep
    \/ Quiet /\ Signal
    \/ Quiet /\ SendCommand

Spec == Init /\ [][Next]_vars

SpecSerial == InitSerial /\ [][NextSerial]_vars

\* Whole ticks and whole commands, but for reset and restart_cycle.
NextCycle ==
    \/ Idle("listener") /\ TickStep(MaxClock)
    \/ Idle("main") /\ (ListenerPauseStep \/ ListenerResumeStep)
    \/ Quiet /\ SendNoReset

SpecCycle == InitCycle /\ [][NextCycle]_vars

\* Whole ticks and whole commands, and a signal delivered at any statement
\* of either, also of the handler itself; the handler then runs to the exit
\* of the process.
NextSignal ==
    \/ ~InHandler /\ Idle("listener") /\ TickStep(MaxClock)
    \/ ~InHandler /\ Idle("main") /\ ListenerStep
    \/ InHandler /\ (HandlerStep \/ LogCheck("main") \/ LogInsert("main"))
    \/ Signal
    \/ Quiet /\ SendCommand

SpecSignal == InitSerial /\ [][NextSignal]_vars

\* A write of the session log or of the status file that fails.
WriteFails(t) == LogInsertFails(t) \/ StatusWriteFails(t)

\* A client of SpecFaulty writes a line to the FIFO.
SendFaulty ==
    /\ Len(sessions) < MaxFaultyClock
    /\ SendCommand

\* Whole ticks and whole commands, any of whose writes may fail.
NextFaulty ==
    \/ Idle("listener")
          /\ (TickStep(MaxFaultyClock + 1) \/ WriteFails("main"))
    \/ Idle("main") /\ (ListenerStep \/ WriteFails("listener"))
    \/ Quiet /\ SendFaulty

SpecFaulty == InitSerial /\ [][NextFaulty]_vars

\* The engine constructed, with lines of start and pause in the FIFO.
InitLive ==
    /\ self = InitSelf
    /\ config = [work_duration_minutes |-> WorkMinutes,
                 short_break_duration_minutes |-> ShortMinutes,
                 long_break_duration_minutes |-> LongMinutes,
                 pomodoros_before_long_break |-> Threshold]
    /\ fifo \in UNION {[1..n -> {"start", "pause"}] : n \in 0..MaxCommands}
    /\ log = <<>>
    /\ InitEngine

\* Every interleaving of the tick loop with the listener at start and
\* pause; the listener blocks in readline once the FIFO is empty.
NextLive ==
    \/ TickStep(MaxRaceClock + 1)
    \/ Command \/ Return
    \/ StartIfIdle \/ StartIfPaused \/ PauseCommand
    \/ PauseCheck("listener") \/ PauseSaveState("listener")
    \/ PauseSaveTime("listener") \/ PauseState("listener")
    \/ Shared("listener")

\* The main thread is scheduled: a statement of the tick loop that can run
\* does run (the sleep of line 480 returns).  Nothing is assumed of the
\* listener, which may stay blocked, or stop, anywhere.
SpecLive ==
    InitLive /\ [][NextLive]_vars /\ WF_vars(TickStep(MaxRaceClock + 1))

\* Whole commands, each run between two statements of the tick loop, and
\* lines sent at any time.
NextPreempt ==
    \/ Idle("listener") /\ TickStep(MaxRaceClock)
    \/ ListenerStep
    \/ Idle("listener") /\ SendCommand

SpecPreempt == InitSerial /\ [][NextPreempt]_vars

(***************************************************************************)
(* Points of observation.                                                  *)
(***************************************************************************)
\* _process_command has returned from the verb, and nothing else has run.
Returned(verb) == At("listener", "ret") /\ ev["listener"].verb = verb

\* One iteration of the tick loop is over, before its sleep.
Ticked == At("main", "end") /\ ev["main"].verb = "tick"

\* The iteration was a natural completion: it began in phase p with the
\* countdown at zero.
Completed(p) == Ticked /\ ev["main"].phase = p /\ ev["main"].tr = 0

\* The process has exited from the signal handler.
Exited == ~alive /\ ev["sig"].verb = "signal"

(***************************************************************************)
(* C1..C3: the session log.                                                *)
(***************************************************************************)
\* C1: every phase exit (pause, skip, reset or restart_cycle from a phase
\* other than Idle, natural completion, shutdown in a timed phase) appends
\* exactly one session record; reset while Idle appends none.
C1_OneRecordPerPhaseExit ==
    /\ \A verb \in {"pause", "skip"} :
          Returned(verb) /\ ev["listener"].phase \in ActiveStates
             => ev["listener"].n = 1
    /\ \A verb \in {"reset", "restart_cycle"} :
          Returned(verb) /\ ev["listener"].phase # IDLE
             => ev["listener"].n = 1
    /\ Returned("reset") /\ ev["listener"].phase = IDLE
          => ev["listener"].n = 0
    /\ \A p \in ActiveStates : Completed(p) => ev["main"].n = 1
    /\ Exited /\ ev["sig"].phase \in ActiveStates => ev["sig"].n = 1

\* C2: the log never holds two records for one session attempt (one value
\* of session_start_timestamp).
C2_OneRecordPerAttempt ==
    \A i, j \in 1..Len(log) :
        i < j => log[i].start_time # log[j].start_time

\* C3: a record has completed = TRUE only if the countdown of its attempt
\* was found at zero by the tick loop, and its type is the phase of that
\* attempt.
C3_CompletedOnlyWhenExpired ==
    \A i \in 1..Len(log) :
        log[i].completed =>
            /\ log[i].start_time \in expired \ {None}
            /\ log[i].type = type_map(sessions[log[i].start_time])

(***************************************************************************)
(* C4..C6: the pomodoro count and the choice of the break.                 *)
(***************************************************************************)
\* C4: a natural completion of Work increments pomodoros_completed_in_cycle
\* by exactly 1; a natural completion of a break leaves it unchanged.
C4_CompletionCount ==
    /\ Completed(WORK) =>
          self.pomodoros_completed_in_cycle = ev["main"].cnt + 1
    /\ \A p \in {SHORT_BREAK, LONG_BREAK} :
          Completed(p) => self.pomodoros_completed_in_cycle = ev["main"].cnt

\* A Work session that followed completed pomodoros has run out.
C4_Witness == Completed(WORK) /\ ev["main"].cnt >= 1

\* C5 as claimed: skip or reset of a Work session leaves the count as it
\* was.
C5_SkipResetKeepCount ==
    \A verb \in {"skip", "reset"} :
        Returned(verb) /\ ev["listener"].phase = WORK
           => self.pomodoros_completed_in_cycle = ev["listener"].cnt

\* C5 amended: reset of a Work session leaves the count as it was; skip of
\* a Work session increments it by exactly 1.
C5_ResetKeepsSkipCounts ==
    /\ Returned("reset") /\ ev["listener"].phase = WORK
          => self.pomodoros_completed_in_cycle = ev["listener"].cnt
    /\ Returned("skip") /\ ev["listener"].phase = WORK
          => self.pomodoros_completed_in_cycle = ev["listener"].cnt + 1

\* A Work session was skipped.
C5_Witness == Returned("skip") /\ ev["listener"].phase = WORK

\* A Work session has ended, by its countdown or by skip, and the break is
\* started.
WorkEnded ==
    \/ Completed(WORK)
    \/ Returned("skip") /\ ev["listener"].phase = WORK

\* C6: the break after a Work session is LONG_BREAK iff the count after the
\* increment is a multiple of pomodoros_before_long_break, SHORT_BREAK
\* otherwise, and it starts with the full configured duration.
C6_BreakChoice ==
    WorkEnded =>
        IF self.pomodoros_completed_in_cycle
              % config.pomodoros_before_long_break = 0
        THEN /\ self.current_state = LONG_BREAK
             /\ self.time_remaining_seconds =
                   config.long_break_duration_minutes * SecondsPerMinute
        ELSE /\ self.current_state = SHORT_BREAK
             /\ self.time_remaining_seconds =
                   config.short_break_duration_minutes * SecondsPerMinute

\* A long break at the second multiple of a threshold above 1.
C6_Witness ==
    /\ Completed(WORK)
    /\ self.current_state = LONG_BREAK
    /\ config.pomodoros_before_long_break > 1
    /\ self.pomodoros_completed_in_cycle
          = 2 * config.pomodoros_before_long_break

(***************************************************************************)
(* C7: pause and resume.                                                   *)
(***************************************************************************)
\* C7: pause in phase P with r remaining gives PAUSED with P and r saved;
\* the next resume, or start, gives phase P with exactly r remaining,
\* whatever ran in between.
C7_PauseResumeRoundTrip ==
    /\ Returned("pause") /\ ev["listener"].phase \in ActiveStates =>
          /\ self.current_state = PAUSED
          /\ self.paused_state = ev["listener"].phase
          /\ self.paused_time_remaining = ev["listener"].tr
    /\ \A verb \in {"resume", "start"} :
          Returned(verb) /\ ev["listener"].phase = PAUSED =>
             /\ self.current_state = atPause.phase
             /\ self.time_remaining_seconds = atPause.tr

\* A Work session paused after its first tick is resumed.
C7_Witness ==
    /\ Returned("resume")
    /\ ev["listener"].phase = PAUSED
    /\ atPause.phase = WORK
    /\ atPause.tr > 0
    /\ atPause.tr < config.work_duration_minutes * SecondsPerMinute

(***************************************************************************)
(* C8..C10: restart_cycle and the countdown.                               *)
(***************************************************************************)
\* C8: restart_cycle leaves the engine in WORK with the count 0 and the
\* full work duration remaining, whatever the tick loop is doing; the one
\* iteration of the tick loop in flight may have taken its second from the
\* new session.
C8_RestartCycle ==
    Returned("restart_cycle") /\ ~ev["listener"].woke =>
        /\ self.current_state = WORK
        /\ self.pomodoros_completed_in_cycle = 0
        /\ self.time_remaining_seconds \in
              { config.work_duration_minutes * SecondsPerMinute,
                config.work_duration_minutes * SecondsPerMinute - 1 }

\* C9: time_remaining_seconds is never negative.
C9_RemainingNonNegative == self.time_remaining_seconds >= 0

\* C10: the tick that brings the countdown to 0 also performs the natural
\* completion: after a tick the engine is not in a timed phase with 0
\* remaining, and the tick that began in WORK with 1 second left ends in a
\* break with the count incremented.
C10_CompletionInSameTick ==
    /\ Ticked =>
          ~(/\ self.current_state \in ActiveStates
            /\ self.time_remaining_seconds = 0)
    /\ Ticked /\ ev["main"].phase = WORK /\ ev["main"].tr = 1 =>
          /\ self.current_state \in {SHORT_BREAK, LONG_BREAK}
          /\ self.pomodoros_completed_in_cycle = ev["main"].cnt + 1

(***************************************************************************)
(* C11, C12: shutdown.                                                     *)
(***************************************************************************)
\* C11: a termination signal received in WORK, SHORT_BREAK or LONG_BREAK
\* appends one row, with completed false and the start time of the session
\* in flight, before the process exits; one received in IDLE or PAUSED
\* appends none.
C11_ShutdownLogsInFlight ==
    /\ Exited /\ ev["sig"].phase \in ActiveStates =>
          /\ ev["sig"].n = 1
          /\ log # <<>>
          /\ ~log[Len(log)].completed
          /\ log[Len(log)].start_time = ev["sig"].sts
          /\ log[Len(log)].type = type_map(ev["sig"].phase)
    /\ Exited /\ ev["sig"].phase \in {IDLE, PAUSED} => ev["sig"].n = 0

\* The process has exited from a signal received during a break.
C11_Witness == Exited /\ ev["sig"].phase = SHORT_BREAK /\ ev["sig"].n = 1

\* C12: the handlers of all the signals delivered append at most one row,
\* and that row is the only one of its session attempt, whatever tick or
\* command the first signal interrupted.
C12_AtMostOneFinalFlush ==
    /\ ev["sig"].n <= 1
    /\ Exited /\ ev["sig"].n >= 1 =>
          \A i \in 1..(Len(log) - 1) :
              log[i].start_time # log[Len(log)].start_time

(***************************************************************************)
(* C13, C14: the idle state, and the verbs that change nothing.            *)
(***************************************************************************)
\* C13: when both threads are at rest in IDLE, time_remaining_seconds is 0
\* and session_start_timestamp is None; a status file that says "idle" has
\* time_remaining 0 and the message "Ready".
C13_IdleIsCleared ==
    /\ Quiet /\ self.current_state = IDLE =>
          /\ self.time_remaining_seconds = 0
          /\ self.session_start_timestamp = None
    /\ status.state = "idle" =>
          /\ status.time_remaining = 0
          /\ status.message.text = "Ready"

\* The fields of the timer are those the activity began with.
SameState(e) ==
    /\ self.current_state = e.phase
    /\ self.time_remaining_seconds = e.tr
    /\ self.pomodoros_completed_in_cycle = e.cnt
    /\ self.session_start_timestamp = e.sts
    /\ self.paused_state = e.ps
    /\ self.paused_time_remaining = e.ptr

\* C14: get_status and an unknown verb leave every field of the timer as
\* it was and append no row; get_status writes the status file once, an
\* unknown verb never.
C14_StatusAndUnknownVerbs ==
    /\ Returned("get_status") =>
          /\ SameState(ev["listener"])
          /\ ev["listener"].n = 0
          /\ ev["listener"].w = 1
          /\ status = Snapshot
    /\ Returned("bogus") =>
          /\ SameState(ev["listener"])
          /\ ev["listener"].n = 0
          /\ ev["listener"].w = 0

\* get_status has been served while a break was paused.
C14_Witness ==
    /\ Returned("get_status")
    /\ self.current_state = PAUSED
    /\ self.paused_state = SHORT_BREAK

(***************************************************************************)
(* C15, C16: skip, and the pomodoro count.                                 *)
(***************************************************************************)
\* The phase, remaining time and count a natural completion leaves, from
\* the phase and the count it began with.
AfterCompletion(phase, cnt) ==
    IF phase = WORK
    THEN [state |-> IF (cnt + 1) % config.pomodoros_before_long_break = 0
                    THEN LONG_BREAK ELSE SHORT_BREAK,
          time |-> IF (cnt + 1) % config.pomodoros_before_long_break = 0
                   THEN config.long_break_duration_minutes * SecondsPerMinute
                   ELSE config.short_break_duration_minutes * SecondsPerMinute,
          cnt |-> cnt + 1]
    ELSE [state |-> WORK,
          time |-> config.work_duration_minutes * SecondsPerMinute,
          cnt |-> cnt]

\* The phase, remaining time and count now.
Outcome == [state |-> self.current_state,
            time |-> self.time_remaining_seconds,
            cnt |-> self.pomodoros_completed_in_cycle]

\* The rows appended by the activity e are k rows of the session it began
\* in, with the given completed flag.
Logged(e, k, completed) ==
    /\ e.n = k
    /\ Len(log) >= k
    /\ \A i \in (Len(log) - k + 1)..Len(log) :
          /\ log[i].completed = completed
          /\ log[i].start_time = e.sts
          /\ log[i].type = type_map(e.phase)

\* C15: skip in a timed phase leaves the phase, remaining time and count a
\* natural completion of that phase leaves, and appends the row a natural
\* completion appends but for completed, which is false.
C15_SkipAsCompletion ==
    /\ \A p \in ActiveStates :
          Completed(p) =>
             /\ Outcome = AfterCompletion(p, ev["main"].cnt)
             /\ Logged(ev["main"], 1, TRUE)
    /\ Returned("skip") /\ ev["listener"].phase \in ActiveStates =>
          /\ Outcome = AfterCompletion(ev["listener"].phase,
                                       ev["listener"].cnt)
          /\ Logged(ev["listener"], 1, FALSE)

\* C16: no tick and no verb but restart_cycle lowers the count, and reset
\* leaves it as it was.
C16_CountOnlyResetByRestart ==
    /\ \A verb \in Verbs \ {"restart_cycle"} :
          Returned(verb) =>
             self.pomodoros_completed_in_cycle >= ev["listener"].cnt
    /\ Returned("reset") =>
          self.pomodoros_completed_in_cycle = ev["listener"].cnt
    /\ Ticked => self.pomodoros_completed_in_cycle >= ev["main"].cnt
    /\ Exited => self.pomodoros_completed_in_cycle = ev["sig"].cnt

\* The timer was reset after a pomodoro was counted.
C16_Witness == Returned("reset") /\ ev["listener"].cnt >= 1

(***************************************************************************)
(* C17: failed writes.                                                     *)
(***************************************************************************)
\* C17: a write of the session log or of the status file, whether it
\* succeeds or fails, changes no field of the timer, does not end the
\* process, and returns to the statement after it: the tick or command goes
\* on as if the write had succeeded.
C17_FailedWriteKeepsState ==
    [][\A t \in Threads :
          (At(t, "log_b") \/ At(t, "ws_write")) /\ pc'[t] # pc[t] =>
             /\ self' = self
             /\ alive'
             /\ pc'[t] = Tail(pc[t])]_vars

\* A pause whose row could not be appended has returned, the timer paused.
C17_Witness ==
    /\ Returned("pause")
    /\ ev["listener"].f >= 1
    /\ ev["listener"].n = 0
    /\ self.current_state = PAUSED

(***************************************************************************)
(* C18..C20: the two threads.                                              *)
(***************************************************************************)
\* The tick loop has tested the phase at line 465 and its iteration is not
\* over; the listener is past the tests of the phase made for a verb
\* (lines 198-210, 293, 306, 329, 341) and the verb's method has not
\* returned.
InTransition(t) ==
    /\ alive
    /\ pc[t] # <<>>
    /\ IF t = "main"
       THEN Head(pc[t]).l \notin {"sleep", "loop", "chk_state", "end"}
       ELSE Head(pc[t]).l \notin
               {"readline", "ret", "start_idle", "start_paused", "pause_cmd",
                "resume_cmd", "skip_cmd", "reset_chk", "rc_chk", "p_chk",
                "r_chk"}

\* C18: the tick loop and the listener are never both inside a transition.
C18_MutualExclusion == ~(InTransition("main") /\ InTransition("listener"))

\* C19: the tick loop stores time_remaining_seconds - 1 only while the
\* phase is WORK, SHORT_BREAK or LONG_BREAK.
C19_DecrementOnlyWhenActive ==
    [][At("main", "dec_w") /\ pc'["main"] # pc["main"]
          /\ self'.time_remaining_seconds = self.time_remaining_seconds - 1
       => self.current_state \in ActiveStates]_vars

\* C20: in PAUSED, paused_state is WORK, SHORT_BREAK or LONG_BREAK and
\* paused_time_remaining is not negative.
C20_PausedSnapshot ==
    self.current_state = PAUSED =>
        /\ self.paused_state \in ActiveStates
        /\ self.paused_time_remaining >= 0

(***************************************************************************)
(* C21: the status file.                                                   *)
(***************************************************************************)
\* C21: when the tick loop is asleep and the listener waits for a line, the
\* status file last written names the phase and the pomodoro count of the
\* timer.
C21_StatusAgrees ==
    Quiet /\ status # NoStatus =>
        /\ status.state = state_map(self.current_state)
        /\ status.pomodoros_completed = self.pomodoros_completed_in_cycle

(***************************************************************************)
(* C22: the tick loop does not wait for the listener.                      *)
(***************************************************************************)
\* Session attempt i is counting down.
Running(i) ==
    /\ alive
    /\ self.current_state \in ActiveStates
    /\ self.session_start_timestamp = i

\* The command reader waits in readline for a line that is not there.
Blocked == Idle("listener") /\ fifo = <<>>

\* C22: with the main thread scheduled and the command reader blocked in
\* readline, a session attempt that is counting down when the tick loop
\* sleeps is eventually found at zero by the tick loop, which leaves it
\* for the next phase.
C22_TickLoopNotStalled ==
    \A i \in 1..MaxRaceClock :
        (Running(i) /\ Blocked /\ Idle("main"))
            ~> (i \in expired /\ ~Running(i))

\* The first attempt has run out with the listener blocked in readline on
\* an empty FIFO, and the break has started.
C22_Witness ==
    /\ 1 \in expired
    /\ self.session_start_timestamp = 2
    /\ self.current_state = SHORT_BREAK
    /\ Idle("listener")
    /\ fifo = <<>>
    /\ Len(log) = 1
    /\ log[1].completed

(***************************************************************************)
(* C23: verbs the phase has no transition for.                             *)
(***************************************************************************)
\* The phase, the countdown, the pomodoro count and the start timestamp are
\* those the command found, and it appended no row.
Ignored(e) ==
    /\ self.current_state = e.phase
    /\ self.time_remaining_seconds = e.tr
    /\ self.pomodoros_completed_in_cycle = e.cnt
    /\ self.session_start_timestamp = e.sts
    /\ e.n = 0

\* C23: start in Work, ShortBreak or LongBreak, pause in Idle or Paused,
\* resume in any phase but Paused and skip in Idle or Paused leave the
\* phase, the countdown, the pomodoro count and the start timestamp as they
\* were and append no row.
C23_VerbWithoutRowIsNoOp ==
    /\ Returned("start") /\ ev["listener"].phase \in ActiveStates
           => Ignored(ev["listener"])
    /\ Returned("pause") /\ ev["listener"].phase \in {IDLE, PAUSED}
           => Ignored(ev["listener"])
    /\ Returned("resume") /\ ev["listener"].phase # PAUSED
           => Ignored(ev["listener"])
    /\ Returned("skip") /\ ev["listener"].phase \in {IDLE, PAUSED}
           => Ignored(ev["listener"])

\* start has returned in a work session that a tick had counted down, and
\* the countdown is where the tick left it.
C23_Witness ==
    /\ Returned("start")
    /\ ev["listener"].phase = WORK
    /\ ev["listener"].tr = WorkMinutes * SecondsPerMinute - 1
    /\ self.time_remaining_seconds = ev["listener"].tr
    /\ ev["listener"].tr > 0

=============================================================================
